---- MODULE Spec2Model ----
(***************************************************************************)
(* A model of trlc::EnumHolder (include/common/enum/detail.hpp): a fixed   *)
(* array of Enum<T> entries (value, name) and the lookups fromValue,       *)
(* fromString and allValues, with the search policies LinearSearchPolicy,  *)
(* SortedSearchPolicy, CaseSensitiveStringSearchPolicy and                 *)
(* CaseInsensitiveStringSearchPolicy and the default UnknownPolicy.        *)
(*                                                                         *)
(* Values of T are the naturals 0..MaxVal, T{} being 0.  A name            *)
(* (std::string_view) is the sequence of its character codes.  Array       *)
(* indices are C++ indices (0-based); entries[i] of the code is            *)
(* entries[i + 1] here.  size_t is modelled SizeBits wide: TLC's integers  *)
(* are 32 bits wide, and the runs of the code are the same for every       *)
(* width w with 2^(w-1) - 1 >= N, because the first index computed after   *)
(* `right` wraps around is (2^w - 1) / 2.                                  *)
(***************************************************************************)
EXTENDS Integers, Sequences, FiniteSets

VARIABLES
    entries,  \* EnumHolder::m_entries, the backing array
    pc,       \* "idle": no call in progress; "loop": inside the while loop
              \* of SortedSearchPolicy::search; "crashed": the process died
    op,       \* the call made last: "none", "fromValue", "fromString", "allValues"
    policy,   \* the search policy bound to the holder that call was made on
    value,    \* the argument of fromValue
    name,     \* the argument of fromString
    left,     \* SortedSearchPolicy::search: left
    right,    \* SortedSearchPolicy::search: right
    mid,      \* the index at which entries[mid] was read last in this call
    found,    \* the search policy's result (`result` before the comparison)
    unknown,  \* the call of UnknownPolicy::handle made by this call, if any
    ret,      \* the entry fromValue / fromString returned
    all,      \* the array allValues returned
    prev      \* history: an earlier completed call and the array it ran on

vars == <<entries, pc, op, policy, value, name, left, right, mid, found,
          unknown, ret, all, prev>>

----------------------------------------------------------------------------
\* Bounds of the model.

MaxN == 2
MaxVal == 2
SizeBits == 4

\* T{}: the value of a value-initialised Enum<T>::value.
DefaultValue == 0

SizeMod == 2 ^ SizeBits

Values == 0 .. MaxVal

\* Character codes: 'A' = 65, 'B' = 66, 'a' = 97, 'b' = 98.
EntryNames == { <<>>, <<97>>, <<65>>, <<97, 66>> }
QueryNames == EntryNames \cup { <<98>>, <<97, 98>>, <<65, 66>>, <<66, 97>> }

EntryPool == [value : Values, name : EntryNames]

Arrays == UNION { [1 .. n -> EntryPool] : n \in 0 .. MaxN }

\* mid is declared inside the loop body: before the first iteration of a call
\* no index has been read.
NoIndex == -1

N == Len(entries)

----------------------------------------------------------------------------
\* Enum<T> and the policies, as operators.

default_unknown_enum == [value |-> DefaultValue, name |-> <<>>]

EnumEqValueOnly(a, b) == a.value = b.value

EnumEq(a, b) == a.value = b.value /\ a.name = b.name

tolowerIdentity(c) == c

\* std::tolower in the "C" locale: only 'A'..'Z' change.
tolower(c) == IF c \in 65 .. 90 THEN c + 32 ELSE c

caseInsensitiveEqual(a, b) == tolower(a) = tolower(b)

\* std::equal(first1, last1, first2, pred): pred on each position of range 1.
StdEqual(s, t) == \A i \in 1 .. Len(s) : caseInsensitiveEqual(s[i], t[i])

NameMatch(q, entryName) == Len(q) = Len(entryName) /\ StdEqual(entryName, q)

RECURSIVE LinearScanLast(_, _, _)
LinearScanLast(v, es, i) ==
    IF i < 1 THEN default_unknown_enum
    ELSE IF es[i].value = v THEN es[i]
    ELSE LinearScanLast(v, es, i - 1)

RECURSIVE LinearScan(_, _, _)
LinearScan(v, es, i) ==
    IF i > Len(es) THEN default_unknown_enum
    ELSE IF es[i].value = v THEN es[i]
    ELSE LinearScan(v, es, i + 1)

LinearSearchLast(v, es) == LinearScanLast(v, es, Len(es))

LinearSearch(v, es) == LinearScan(v, es, 1)

RECURSIVE CaseSensitiveScan(_, _, _)
CaseSensitiveScan(q, es, i) ==
    IF i > Len(es) THEN default_unknown_enum
    ELSE IF es[i].name = q THEN es[i]
    ELSE CaseSensitiveScan(q, es, i + 1)

CaseSensitiveSearch(q, es) == CaseSensitiveScan(q, es, 1)

RECURSIVE CaseInsensitiveScan(_, _, _)
CaseInsensitiveScan(q, es, i) ==
    IF i > Len(es) THEN default_unknown_enum
    ELSE IF NameMatch(q, es[i].name) THEN es[i]
    ELSE CaseInsensitiveScan(q, es, i + 1)

CaseInsensitiveSearch(q, es) == CaseInsensitiveScan(q, es, 1)

StringSearch(p, q, es) ==
    IF p = "CaseSensitive" THEN CaseSensitiveSearch(q, es)
    ELSE CaseInsensitiveSearch(q, es)

\* UnknownPolicy::handle, both overloads.
handleValue(v, es) == default_unknown_enum

handleName(q, es) == default_unknown_enum

\* size_t arithmetic.
SizeT(x) == x % SizeMod

Midpoint(l, r) == SizeT(l + (SizeT(r - l) \div 2))

GoRightReversed(entryValue, v) == entryValue > v

\* entries[mid].value < value
GoRight(entryValue, v) == entryValue < v

AllValuesReversed(es) == [i \in 1 .. Len(es) |-> es[Len(es) + 1 - i]]

\* allValues returns m_entries by value.
AllValuesCopy(es) == es

NoUnknown == [called |-> FALSE, value |-> DefaultValue, name |-> <<>>, entries |-> <<>>]

\* History (no code of the program): prev before any call has been noted.
NoPrev == [set |-> FALSE, entries |-> <<>>, op |-> "none", policy |-> "none",
           value |-> DefaultValue, name |-> <<>>, ret |-> default_unknown_enum,
           all |-> <<>>]

\* The completed call the state records, as a history record.
ThisCall == [set |-> TRUE, entries |-> entries, op |-> op, policy |-> policy,
             value |-> value, name |-> name, ret |-> ret, all |-> all]

----------------------------------------------------------------------------
\* The state after construction: a holder bound to an array of N entries.

Init ==
    /\ entries \in Arrays
    /\ pc = "idle"
    /\ op = "none"
    /\ policy = "none"
    /\ value = DefaultValue
    /\ name = <<>>
    /\ left = 0
    /\ right = 0
    /\ mid = NoIndex
    /\ found = default_unknown_enum
    /\ unknown = NoUnknown
    /\ ret = default_unknown_enum
    /\ all = <<>>
    /\ prev = NoPrev

\* fromValue, lines 81-85: the comparison with the sentinel, the call of the
\* unknown policy, the return.
ReturnFromValue(v, result) ==
    /\ found' = result
    /\ IF EnumEq(result, default_unknown_enum)
       THEN /\ unknown' = [called |-> TRUE, value |-> v, name |-> <<>>,
                           entries |-> entries]
            /\ ret' = handleValue(v, entries)
       ELSE /\ unknown' = NoUnknown
            /\ ret' = result
    /\ pc' = "idle"

\* fromValue on a holder bound to LinearSearchPolicy.
FromValueLinear(v) ==
    /\ pc = "idle"
    /\ op' = "fromValue"
    /\ policy' = "Linear"
    /\ value' = v
    /\ name' = <<>>
    /\ ReturnFromValue(v, LinearSearch(v, entries))
    /\ left' = 0
    /\ right' = 0
    /\ mid' = NoIndex
    /\ all' = <<>>
    /\ UNCHANGED <<entries, prev>>

\* fromValue on a holder bound to SortedSearchPolicy: up to the loop head.
FromValueSorted(v) ==
    /\ pc = "idle"
    /\ op' = "fromValue"
    /\ policy' = "Sorted"
    /\ value' = v
    /\ name' = <<>>
    /\ found' = default_unknown_enum
    /\ left' = 0
    /\ right' = SizeT(N - 1)
    /\ mid' = NoIndex
    /\ unknown' = NoUnknown
    /\ ret' = default_unknown_enum
    /\ all' = <<>>
    /\ pc' = "loop"
    /\ UNCHANGED <<entries, prev>>

\* One iteration of the loop, reading the entry e at index m.
Probe(m, e) ==
    /\ mid' = m
    /\ IF e.value = value
       THEN /\ ReturnFromValue(value, e)
            /\ UNCHANGED <<left, right>>
       ELSE /\ IF GoRight(e.value, value)
               THEN left' = SizeT(m + 1) /\ right' = right
               ELSE right' = SizeT(m - 1) /\ left' = left
            /\ UNCHANGED <<pc, found, unknown, ret>>
    /\ UNCHANGED <<entries, op, policy, value, name, all, prev>>

\* An iteration whose index lies inside the array.
SortedProbe ==
    /\ pc = "loop"
    /\ left <= right
    /\ Midpoint(left, right) < N
    /\ Probe(Midpoint(left, right), entries[Midpoint(left, right) + 1])

\* An iteration whose index lies outside the array: entries[mid] is undefined
\* behaviour.  The read faults, or yields whatever the memory there holds.
SortedProbeOutOfBounds ==
    /\ pc = "loop"
    /\ left <= right
    /\ Midpoint(left, right) >= N
    /\ \/ /\ pc' = "crashed"
          /\ mid' = Midpoint(left, right)
          /\ UNCHANGED <<entries, op, policy, value, name, left, right, found,
                         unknown, ret, all, prev>>
       \/ \E garbage \in EntryPool : Probe(Midpoint(left, right), garbage)

\* The loop condition fails: search returns result, fromValue finishes.
SortedExit ==
    /\ pc = "loop"
    /\ left > right
    /\ ReturnFromValue(value, found)
    /\ UNCHANGED <<entries, op, policy, value, name, left, right, mid, all, prev>>

\* fromString on a holder bound to the name-search policy p.
FromString(p, q) ==
    /\ pc = "idle"
    /\ op' = "fromString"
    /\ policy' = p
    /\ value' = DefaultValue
    /\ name' = q
    /\ found' = StringSearch(p, q, entries)
    /\ IF EnumEq(found', default_unknown_enum)
       THEN /\ unknown' = [called |-> TRUE, value |-> DefaultValue, name |-> q,
                           entries |-> entries]
            /\ ret' = handleName(q, entries)
       ELSE /\ unknown' = NoUnknown
            /\ ret' = found'
    /\ left' = 0
    /\ right' = 0
    /\ mid' = NoIndex
    /\ all' = <<>>
    /\ UNCHANGED <<entries, pc, prev>>

AllValues ==
    /\ pc = "idle"
    /\ op' = "allValues"
    /\ policy' = "none"
    /\ value' = DefaultValue
    /\ name' = <<>>
    /\ all' = AllValuesCopy(entries)
    /\ found' = default_unknown_enum
    /\ unknown' = NoUnknown
    /\ ret' = default_unknown_enum
    /\ left' = 0
    /\ right' = 0
    /\ mid' = NoIndex
    /\ UNCHANGED <<entries, pc, prev>>

\* History: note the call just completed, to compare later calls with it.
Remember ==
    /\ pc = "idle"
    /\ op # "none"
    /\ prev' = ThisCall
    /\ UNCHANGED <<entries, pc, op, policy, value, name, left, right, mid, found,
                   unknown, ret, all>>

Next ==
    \/ \E v \in Values : FromValueLinear(v)
    \/ \E v \in Values : FromValueSorted(v)
    \/ SortedProbe
    \/ SortedProbeOutOfBounds
    \/ SortedExit
    \/ \E p \in {"CaseSensitive", "CaseInsensitive"} : \E q \in QueryNames : FromString(p, q)
    \/ AllValues

Spec == Init /\ [][Next]_vars

\* The same program, with the history variable prev recording earlier calls.
NextHistory == Next \/ Remember

SpecHistory == Init /\ [][NextHistory]_vars

----------------------------------------------------------------------------
\* Vocabulary of the properties, defined apart from the operators above.

\* The array is sorted ascending by value.
IsSorted(es) == \A i \in 1 .. Len(es) - 1 : es[i].value <= es[i + 1].value

StrictlySorted(es) == \A i \in 1 .. Len(es) - 1 : es[i].value < es[i + 1].value

\* A name with its ASCII upper-case letters lower-cased.
AsciiLower(s) == [i \in 1 .. Len(s) |-> IF s[i] >= 65 /\ s[i] <= 90 THEN s[i] + 32 ELSE s[i]]

\* Two names match under the name-search policy p.
Matches(p, a, b) ==
    IF p = "CaseInsensitive"
    THEN Len(a) = Len(b) /\ AsciiLower(a) = AsciiLower(b)
    ELSE a = b

Least(S) == CHOOSE i \in S : \A j \in S : i <= j

\* The last call was fromValue / fromString and is over (returned or died).
ValueCallOver == op = "fromValue" /\ pc # "loop"

NameCallOver == op = "fromString" /\ pc # "loop"

\* The precondition of SortedSearchPolicy on the array.
SortedAsRequired == policy = "Sorted" => IsSorted(entries)

----------------------------------------------------------------------------
\* C1 (as claimed): for every entry e of the array, fromValue(e.value) returns
\* e and fromString(e.name) returns e, under every value-search and name-search
\* policy, the array being sorted ascending when SortedSearchPolicy is used.
\* Stated for the arrays whose entries differ pairwise in value and in name.
C1_RoundTripEveryEntry ==
    (\A i, j \in 1 .. N :
         i # j => (entries[i].value # entries[j].value /\ entries[i].name # entries[j].name))
    =>
    /\ (ValueCallOver /\ SortedAsRequired) =>
           \A i \in 1 .. N :
               entries[i].value = value => (pc = "idle" /\ EnumEq(ret, entries[i]))
    /\ NameCallOver =>
           \A i \in 1 .. N :
               entries[i].name = name => (pc = "idle" /\ EnumEq(ret, entries[i]))

\* C1 (amended): fromValue(e.value) returns e for every entry e whose value no
\* other entry has, and fromString(e.name) returns e for every entry e whose
\* name matches no other entry's name under the bound name-search policy; for
\* every policy combination, the array sorted ascending under SortedSearchPolicy.
C1_RoundTripUniqueEntry ==
    /\ (ValueCallOver /\ SortedAsRequired) =>
           \A i \in 1 .. N :
               (/\ entries[i].value = value
                /\ \A j \in 1 .. N : j # i => entries[j].value # value)
               => (pc = "idle" /\ EnumEq(ret, entries[i]))
    /\ NameCallOver =>
           \A i \in 1 .. N :
               (/\ entries[i].name = name
                /\ \A j \in 1 .. N : j # i => ~Matches(policy, name, entries[j].name))
               => (pc = "idle" /\ EnumEq(ret, entries[i]))

\* A sorted search that found the second of two entries of a sorted array.
C1_Witness ==
    /\ op = "fromValue" /\ policy = "Sorted" /\ pc = "idle"
    /\ N = 2 /\ entries[1].value < entries[2].value
    /\ value = entries[2].value
    /\ ret = entries[2]
    /\ ~EnumEq(ret, default_unknown_enum)

\* C2: under the default UnknownPolicy, fromValue of a value no entry has and
\* fromString of a name matching no entry return the sentinel entry, for every
\* value-search policy (sorted on a sorted array, queries below and above every
\* entry's value included) and every name-search policy.  Stated for non-empty
\* arrays.
C2_UnknownFallback ==
    /\ (ValueCallOver /\ SortedAsRequired /\ N >= 1
        /\ \A i \in 1 .. N : entries[i].value # value)
       => (pc = "idle" /\ EnumEq(ret, default_unknown_enum))
    /\ (NameCallOver /\ N >= 1
        /\ \A i \in 1 .. N : ~Matches(policy, name, entries[i].name))
       => (pc = "idle" /\ EnumEq(ret, default_unknown_enum))

\* C3: fromValue and fromString never fail: on every non-empty array, sorted or
\* not, no call ends otherwise than by returning an entry.
C3_NeverFails == N >= 1 => pc # "crashed"

\* C4: every index mid at which SortedSearchPolicy::search reads entries[mid]
\* lies in 0 .. N-1, on every non-empty array and for every query.
C4_ReadsInBounds ==
    (op = "fromValue" /\ policy = "Sorted" /\ mid # NoIndex /\ N >= 1)
    => (0 <= mid /\ mid < N)

\* C5: with CaseInsensitiveStringSearchPolicy, fromString(q) returns the first
\* entry in array order whose name has the length of q and equals q position by
\* position after ASCII lower-casing, and the sentinel if there is none (so that
\* the result depends on q through its lower-cased form only).
C5_CaseInsensitiveFirstMatch ==
    (op = "fromString" /\ policy = "CaseInsensitive") =>
        LET S == {i \in 1 .. N : /\ Len(entries[i].name) = Len(name)
                                 /\ AsciiLower(entries[i].name) = AsciiLower(name)}
        IN  IF S = {} THEN ret = default_unknown_enum
            ELSE ret = entries[Least(S)]

\* The query "AB" resolved to an entry named "aB".
C5_Witness ==
    /\ op = "fromString" /\ policy = "CaseInsensitive"
    /\ name = <<65, 66>>
    /\ ret.name = <<97, 66>>

\* C6: with LinearSearchPolicy, fromValue returns entries[i] for the least i
\* with entries[i].value == value, also when several entries share the value.
C6_LinearFirstMatch ==
    (op = "fromValue" /\ policy = "Linear") =>
        LET S == {i \in 1 .. N : entries[i].value = value}
        IN  S # {} => EnumEq(ret, entries[Least(S)])

\* Two different entries share the queried value and the first was returned.
C6_Witness ==
    /\ op = "fromValue" /\ policy = "Linear"
    /\ N = 2 /\ entries[1].value = value /\ entries[2].value = value
    /\ entries[1].name # entries[2].name
    /\ ret = entries[1]

\* C7: allValues returns a sequence of length N whose i-th element is the i-th
\* entry of the backing array.
C7_AllValuesInOrder ==
    op = "allValues" =>
        /\ Len(all) = N
        /\ \A i \in 1 .. N : all[i] = entries[i]

\* allValues returned two different entries.
C7_Witness ==
    /\ op = "allValues"
    /\ N = 2 /\ Len(all) = 2
    /\ all[1] # all[2]

\* C8: after any calls the backing array is what it was, and a call repeating
\* the query of an earlier call on the same holder type returns what that call
\* returned.  Stated for non-empty arrays.
C8_Purity ==
    (prev.set /\ N >= 1) =>
        /\ entries = prev.entries
        /\ (/\ pc # "loop"
            /\ op = prev.op /\ policy = prev.policy
            /\ value = prev.value /\ name = prev.name)
           => (pc = "idle" /\ ret = prev.ret /\ all = prev.all)

\* C9: the unknown policy is invoked exactly when the search result equals the
\* sentinel (default value and empty name), with the original query and the
\* full array, and its result is returned; otherwise the search result is
\* returned unchanged.
C9_TwoStepResolution ==
    (pc = "idle" /\ op \in {"fromValue", "fromString"}) =>
        /\ unknown.called <=> (found.value = DefaultValue /\ found.name = <<>>)
        /\ unknown.called =>
               /\ unknown.entries = entries
               /\ unknown.value = value
               /\ unknown.name = name
               /\ ret = default_unknown_enum
        /\ ~unknown.called => ret = found

\* The search found an entry with the default value and a non-empty name, and
\* it was returned without the unknown policy being invoked.
C9_Witness ==
    /\ pc = "idle" /\ op = "fromValue"
    /\ found.value = DefaultValue /\ found.name # <<>>
    /\ ~unknown.called
    /\ ret = found

\* C10: on every array of N >= 1 entries sorted strictly ascending by value,
\* SortedSearchPolicy::search returns what LinearSearchPolicy::search returns,
\* for every query value.
C10_SortedEqualsLinear ==
    (op = "fromValue" /\ policy = "Sorted" /\ pc # "loop"
     /\ N >= 1 /\ StrictlySorted(entries))
    => (pc = "idle" /\ found = LinearSearch(value, entries))

====
